---- MODULE Spec2Model ----
(***************************************************************************)
(* Model of src/transcript_extractor.py: TranscriptInsightExtractor.       *)
(*                                                                         *)
(*   SpecChunk  _chunk_transcript applied to bounded inputs.               *)
(*   Spec       analyze_youtube_video: process_transcript (format, chunk,  *)
(*              one _call_llm per chunk, tools analysis, summary) followed *)
(*              by format_insights_markdown.                               *)
(*                                                                         *)
(* A formatted segment "[MM:SS] text" is the record                        *)
(* [minutes, seconds, text_words]; only its word count matters to the      *)
(* chunker (len(text.split())).  Token estimates are floats in the source  *)
(* (words * 1.3); here they are exact integers in tenths of a token        *)
(* (words * 13), and the budget is scaled by 10 in the comparison.  With   *)
(* the bounds below no sum of estimates equals a budget exactly (that      *)
(* needs a multiple of 10 words against a budget of 13 or more), so float  *)
(* rounding cannot change a comparison.                                    *)
(*                                                                         *)
(* Chunks are sequences of 0-based segment indices, so that two equal      *)
(* segment texts stay distinguishable.                                     *)
(***************************************************************************)
EXTENDS Integers, Sequences, FiniteSets, TLC

\* ---- bounds -------------------------------------------------------------
MaxSegs == 5
MaxWords == 2
MaxAvail == 7
MaxOverlap == 2
MaxPipelineSegs == 3

\* ---- program constants ----------------------------------------------------
PromptReserve == 1000
DefaultOverlapTokens == 1000

VARIABLES
  pc,                    \* position in the modelled call
  overlap_tokens,        \* self.overlap_tokens
  base_model_max_tokens, \* self.base_model_max_tokens
  transcript_data,       \* argument of process_transcript
  formatted_segments,    \* argument of _chunk_transcript
  transcript_chunks,     \* record returned by _chunk_transcript
  idx,                   \* loop index of the note-taking loop
  running_notes_chunks,  \* notes collected so far
  running_notes,         \* merged notes
  ai_tools_json,         \* raw response of the tools-analysis call
  calls,                 \* history: every _call_llm issued, in order
  responses,             \* history: how each _call_llm issued so far ended
  insights,              \* value returned by process_transcript
  error,                 \* exception that reached the caller
  markdown               \* value returned by format_insights_markdown

vars == << pc, overlap_tokens, base_model_max_tokens, transcript_data,
           formatted_segments, transcript_chunks, idx, running_notes_chunks,
           running_notes, ai_tools_json, calls, responses, insights, error,
           markdown >>

None == [none |-> TRUE]

Max(a, b) == IF a >= b THEN a ELSE b
Min(a, b) == IF a <= b THEN a ELSE b

\* ---- _estimate_tokens -----------------------------------------------------
\* len(text.split()) of "[MM:SS] text": the timestamp is one word.
WordCount(segment) == 1 + segment.text_words

\* len(text.split()) * 1.3, in tenths of a token.
estimate_tokens(segment) == WordCount(segment) * 13

\* ---- _chunk_transcript ----------------------------------------------------
\* formatted_segments[a:b] as the sequence of 0-based indices it selects.
PyNorm(x, n) == IF x < 0 THEN Max(x + n, 0) ELSE Min(x, n)

PySlice(n, a, b) ==
  LET lo == PyNorm(a, n)
      hi == PyNorm(b, n)
  IN  IF hi <= lo THEN << >> ELSE [k \in 1..(hi - lo) |-> lo + k - 1]

RECURSIVE SumTokens(_, _)
SumTokens(segs, chunk) ==
  IF chunk = << >> THEN 0
  ELSE estimate_tokens(segs[Head(chunk) + 1]) + SumTokens(segs, Tail(chunk))

available_tokens(max_model_tokens) == max_model_tokens - PromptReserve

\* The condition of line 156, in tenths of a token.
ExceedsBudget(current_tokens, segment_tokens, available) ==
  current_tokens + segment_tokens > available * 10

\* Line 161.
OverlapStart(last_chunk_start_idx, i, overlap) ==
  Max(last_chunk_start_idx + 1, i - overlap)

\* Line 164: the chunk a new chunk starts from.
OverlapSeed(n, overlap_start, i) == PySlice(n, overlap_start, i)

ChunkInit ==
  [ chunks |-> << >>, current_chunk |-> << >>, current_tokens |-> 0,
    last_chunk_start_idx |-> 0,
    opened_at |-> << >>, cur_opened_at |-> 0 ]

\* One iteration of the for loop (lines 153-170).  opened_at is a history
\* field: for each closed chunk, the index i of the iteration that opened it
\* (0 for the initial chunk).
ChunkBody(segs, max_model_tokens, overlap, st, i) ==
  LET segment_tokens == estimate_tokens(segs[i + 1])
      split == ExceedsBudget(st.current_tokens, segment_tokens,
                             available_tokens(max_model_tokens))
      overlap_start == OverlapStart(st.last_chunk_start_idx, i, overlap)
      seed == OverlapSeed(Len(segs), overlap_start, i)
  IN  IF split
      THEN [ chunks |-> Append(st.chunks, st.current_chunk),
             current_chunk |-> Append(seed, i),
             current_tokens |-> SumTokens(segs, seed) + segment_tokens,
             last_chunk_start_idx |-> overlap_start,
             opened_at |-> Append(st.opened_at, st.cur_opened_at),
             cur_opened_at |-> i ]
      ELSE [ st EXCEPT !.current_chunk = Append(@, i),
                       !.current_tokens = @ + segment_tokens ]

RECURSIVE ChunkLoop(_, _, _, _, _)
ChunkLoop(segs, max_model_tokens, overlap, st, i) ==
  IF i >= Len(segs) THEN st
  ELSE ChunkLoop(segs, max_model_tokens, overlap,
                 ChunkBody(segs, max_model_tokens, overlap, st, i), i + 1)

\* Mutant of FlushFinal: the final open chunk is never appended.
FlushFinalForgotten(st) ==
  [ chunks |-> st.chunks, opened_at |-> st.opened_at ]

\* Lines 172-173: the final chunk is appended only if it is non-empty.
FlushFinal(st) ==
  IF st.current_chunk # << >>
  THEN [ chunks |-> Append(st.chunks, st.current_chunk),
         opened_at |-> Append(st.opened_at, st.cur_opened_at) ]
  ELSE [ chunks |-> st.chunks, opened_at |-> st.opened_at ]

chunk_transcript(segs, max_model_tokens, overlap) ==
  FlushFinal(ChunkLoop(segs, max_model_tokens, overlap, ChunkInit, 0))

\* ---- Python values ----------------------------------------------------------
\* A call either returns a value or raises.
Ok(v) == [ok |-> TRUE, v |-> v]
Raise(e) == [ok |-> FALSE, exc |-> e]

\* JSON values as json.loads builds them.  A str is its sequence of characters,
\* a dict a function from keys to values.
JNull == [t |-> "null"]
JStr(s) == [t |-> "str", s |-> s]
JList(l) == [t |-> "list", l |-> l]
JDict(d) == [t |-> "dict", d |-> d]

\* bool(v)
Truthy(v) ==
  CASE v.t = "null" -> FALSE
    [] v.t = "str"  -> v.s # << >>
    [] v.t = "list" -> v.l # << >>
    [] v.t = "dict" -> DOMAIN v.d # {}

\* v[key]
Subscript(v, key) ==
  IF v.t = "dict"
  THEN IF key \in DOMAIN v.d THEN Ok(v.d[key]) ELSE Raise("KeyError")
  ELSE Raise("TypeError")

\* v.get(key, default) of a dict
Get(v, key, default) == IF key \in DOMAIN v.d THEN v.d[key] ELSE default

\* A dict key as a str.  Keys are kept whole: a key met where a list item is
\* expected is only ever subscripted or split, which fails for any str.
KeyChars(key) == << key >>

\* The keys of a dict, in some order, as strs.
RECURSIVE KeyList(_)
KeyList(keys) ==
  IF keys = {} THEN << >>
  ELSE LET k == CHOOSE x \in keys : TRUE
       IN  << JStr(KeyChars(k)) >> \o KeyList(keys \ {k})

\* The items a for loop (or join) over v visits.
Iterate(v) ==
  CASE v.t = "list" -> Ok(v.l)
    [] v.t = "str"  -> Ok([k \in 1..Len(v.s) |-> JStr(<< v.s[k] >>)])
    [] v.t = "dict" -> Ok(KeyList(DOMAIN v.d))
    [] v.t = "null" -> Raise("TypeError")

\* ---- str methods used by format_insights_markdown ----------------------------
\* s.split(sep): the pieces of s between occurrences of the character sep.
RECURSIVE Split(_, _)
Split(s, sep) ==
  IF \A k \in 1..Len(s) : s[k] # sep THEN << s >>
  ELSE LET j == CHOOSE k \in 1..Len(s) :
                  s[k] = sep /\ \A m \in 1..(k - 1) : s[m] # sep
       IN  << SubSeq(s, 1, j - 1) >> \o Split(SubSeq(s, j + 1, Len(s)), sep)

\* s.strip()
RECURSIVE Strip(_)
Strip(s) ==
  IF s = << >> THEN s
  ELSE IF Head(s) = " " THEN Strip(Tail(s))
  ELSE IF s[Len(s)] = " " THEN Strip(SubSeq(s, 1, Len(s) - 1))
  ELSE s

Digits == {"0", "1", "2", "3", "4", "5", "6", "7", "8", "9"}

DigitVal(c) ==
  CASE c = "0" -> 0 [] c = "1" -> 1 [] c = "2" -> 2 [] c = "3" -> 3
    [] c = "4" -> 4 [] c = "5" -> 5 [] c = "6" -> 6 [] c = "7" -> 7
    [] c = "8" -> 8 [] c = "9" -> 9

RECURSIVE DigitsValue(_, _)
DigitsValue(s, acc) ==
  IF s = << >> THEN acc
  ELSE IF Head(s) = "_" THEN DigitsValue(Tail(s), acc)
  ELSE DigitsValue(Tail(s), acc * 10 + DigitVal(Head(s)))

\* The digits int() accepts: decimal digits, single underscores between them.
WellFormedDigits(num) ==
  /\ num # << >>
  /\ \A k \in 1..Len(num) : num[k] \in Digits \cup {"_"}
  /\ num[1] # "_"
  /\ num[Len(num)] # "_"
  /\ \A k \in 1..(Len(num) - 1) : ~(num[k] = "_" /\ num[k + 1] = "_")

IntOfDigits(num, sign) ==
  IF WellFormedDigits(num) THEN Ok(sign * DigitsValue(num, 0))
  ELSE Raise("ValueError")

\* int() of a text without surrounding blanks: an optional sign, then digits.
IntOfBody(body) ==
  IF body # << >> /\ Head(body) = "-" THEN IntOfDigits(Tail(body), 0 - 1)
  ELSE IF body # << >> /\ Head(body) = "+" THEN IntOfDigits(Tail(body), 1)
  ELSE IntOfDigits(body, 1)

\* int(s)
PyInt(s) == IntOfBody(Strip(s))

\* ---- format_insights_markdown ------------------------------------------------
\* Line 256: time_range.split('-')[0].strip()
StartTime(chars) == Strip(Split(chars, "-")[1])

\* Line 257: map(int, start_time.split(':'))
IntsOf(parts) == [k \in 1..Len(parts) |-> PyInt(parts[k])]

\* Lines 257-261: unpacking into minutes and seconds fails unless there are
\* exactly two parts and int() accepts both.
LinkOfInts(time_range, video_id, ints) ==
  IF Len(ints) # 2 \/ \E k \in 1..Len(ints) : ~ints[k].ok
  THEN Raise("ValueError")
  ELSE Ok([ label |-> time_range.s, video_id |-> video_id,
            total_seconds |-> ints[1].v * 60 + ints[2].v ])

\* Lines 256-261: the link of one time range.
Link(time_range, video_id) ==
  IF time_range.t # "str" THEN Raise("AttributeError")
  ELSE LinkOfInts(time_range, video_id,
                  IntsOf(Split(StartTime(time_range.s), ":")))

\* Lines 254-261: the links of all ranges, the first failure ending the loop.
RECURSIVE Links(_, _, _)
RECURSIVE LinksAfter(_, _, _, _)
LinksAfter(r, rest, video_id, acc) ==
  IF r.ok THEN Links(rest, video_id, Append(acc, r.v)) ELSE r

Links(ranges, video_id, acc) ==
  IF ranges = << >> THEN Ok(acc)
  ELSE LinksAfter(Link(Head(ranges), video_id), Tail(ranges), video_id, acc)

\* Line 253: the ranges are visited only if timestamp_ranges is truthy.
RangesOf(timestamp_ranges) ==
  IF Truthy(timestamp_ranges) THEN Iterate(timestamp_ranges) ELSE Ok(<< >>)

LinksOfRanges(ranges, video_id) ==
  IF ranges.ok THEN Links(ranges.v, video_id, << >>) ELSE ranges

\* Lines 248-263.
ToolLinks(tool, video_id) ==
  IF tool.t # "dict" THEN Raise("AttributeError")
  ELSE LinksOfRanges(RangesOf(Get(tool, "timestamp_ranges", JList(<< >>))),
                     video_id)

ScalarFields == {"usage_context", "sentiment"}
ListFields == {"features", "limitations", "use_cases", "integrations", "examples"}

\* Lines 267-282: the optional fields whose condition holds.
FieldsShown(tool) ==
  { f \in ScalarFields \cup ListFields : Truthy(Get(tool, f, JNull)) }
    \cup { f \in {"pricing"} :
             /\ Truthy(Get(tool, f, JNull))
             /\ tool.d[f] # JStr(<< "n", "u", "l", "l" >>) }

\* Lines 267-282: what is rendered for each shown field; a list field is joined
\* item by item.
RenderFields(tool, shown) ==
  IF \E f \in shown \cap ListFields : ~Iterate(tool.d[f]).ok
  THEN Raise("TypeError")
  ELSE Ok([ f \in shown |->
              IF f \in ListFields THEN JList(Iterate(tool.d[f]).v)
              ELSE tool.d[f] ])

OptionalFields(tool) ==
  IF tool.t # "dict" THEN Raise("AttributeError")
  ELSE RenderFields(tool, FieldsShown(tool))

\* Lines 246-284: the entry, or the first exception in program order.
ToolEntry(name, description, links, fields) ==
  IF ~name.ok THEN name
  ELSE IF ~description.ok THEN description
  ELSE IF ~links.ok THEN links
  ELSE IF ~fields.ok THEN fields
  ELSE Ok([ name |-> name.v, links |-> links.v,
            description |-> description.v, fields |-> fields.v ])

\* Lines 246-284: one entry of the tools section.
FormatTool(tool, video_id) ==
  ToolEntry(Subscript(tool, "name"), Subscript(tool, "description"),
            ToolLinks(tool, video_id), OptionalFields(tool))

\* Lines 245-284: the loop over the tools, the first failure ending it.
RECURSIVE FormatTools(_, _, _)
RECURSIVE FormatToolsAfter(_, _, _, _)
FormatToolsAfter(r, rest, video_id, acc) ==
  IF r.ok THEN FormatTools(rest, video_id, Append(acc, r.v)) ELSE r

FormatTools(tools, video_id, acc) ==
  IF tools = << >> THEN Ok(acc)
  ELSE FormatToolsAfter(FormatTool(Head(tools), video_id), Tail(tools),
                        video_id, acc)

\* json.loads of a response text.  A text is either the serialisation of a
\* JSON value, or not JSON at all.
json_loads(text) ==
  IF text.syntax = "json" THEN Ok(text.doc) ELSE Raise("JSONDecodeError")

\* Line 286.
EntriesSection(formatted_tools) ==
  IF formatted_tools.ok
  THEN Ok([kind |-> "tools", entries |-> formatted_tools.v])
  ELSE formatted_tools

\* Line 245: for tool in tools_data['ai_tools'].
ToolsOf(ai_tools) == IF ai_tools.ok THEN Iterate(ai_tools.v) ELSE ai_tools

FormattedTools(tools, video_id) ==
  IF tools.ok THEN FormatTools(tools.v, video_id, << >>) ELSE tools

\* Lines 241-289: only json.JSONDecodeError is caught; the raw text then
\* becomes a fenced block.
SectionOf(text, tools_data, video_id) ==
  IF ~tools_data.ok
  THEN Ok([kind |-> "raw_block", text |-> text])
  ELSE EntriesSection(
         FormattedTools(ToolsOf(Subscript(tools_data.v, "ai_tools")), video_id))

ToolsSection(text, video_id) == SectionOf(text, json_loads(text), video_id)

\* Lines 291-304.
Report(ins, video_id, tools_section) ==
  IF tools_section.ok
  THEN Ok([ video_id |-> video_id,
            final_summary |-> ins.final_summary,
            tools_section |-> tools_section.v,
            running_notes |-> ins.running_notes ])
  ELSE tools_section

\* Lines 236-304.
format_insights_markdown(ins, video_id) ==
  Report(ins, video_id, ToolsSection(ins.ai_tools_json, video_id))

\* ---- inputs ---------------------------------------------------------------
\* Lines 189-194: "[MM:SS] text" from a transcript entry.
FormatSegment(segment) ==
  [ minutes |-> segment.start \div 60, seconds |-> segment.start % 60,
    text_words |-> segment.text_words ]

FormatAll(data) == [k \in 1..Len(data) |-> FormatSegment(data[k])]

\* Transcripts of one-second segments, each text of 0..MaxWords words.
TranscriptsOfLen(n) ==
  { [k \in 1..n |-> [start |-> k - 1, text_words |-> w[k]]] :
      w \in [1..n -> 0..MaxWords] }

Transcripts == UNION { TranscriptsOfLen(n) : n \in 0..MaxSegs }

Budgets == (PromptReserve - 1)..(PromptReserve + MaxAvail)

Overlaps == (0..MaxOverlap) \cup {DefaultOverlapTokens}

\* ---- SpecChunk: _chunk_transcript on bounded inputs -------------------------
InitChunk ==
  /\ pc = "chunk_call"
  /\ overlap_tokens \in Overlaps
  /\ base_model_max_tokens \in Budgets
  /\ transcript_data = << >>
  /\ formatted_segments \in { FormatAll(t) : t \in Transcripts }
  /\ transcript_chunks = None
  /\ idx = 0
  /\ running_notes_chunks = << >>
  /\ running_notes = None
  /\ ai_tools_json = None
  /\ calls = << >>
  /\ responses = << >>
  /\ insights = None
  /\ error = None
  /\ markdown = None

ChunkTranscript ==
  /\ pc = "chunk_call"
  /\ transcript_chunks' =
       chunk_transcript(formatted_segments, base_model_max_tokens, overlap_tokens)
  /\ pc' = "chunk_done"
  /\ UNCHANGED << overlap_tokens, base_model_max_tokens, transcript_data,
                  formatted_segments, idx, running_notes_chunks, running_notes,
                  ai_tools_json, calls, responses, insights, error, markdown >>

NextChunk == ChunkTranscript

SpecChunk == InitChunk /\ [][NextChunk]_vars

\* ---- responses of the text generator ------------------------------------------
NoteTexts == {"note-a", "note-b"}

SummaryTexts == {"summary"}

\* "01:05-02:10"
RangeGood ==
  JStr(<< "0", "1", ":", "0", "5", "-", "0", "2", ":", "1", "0" >>)
\* "00:30 - 01:45"
RangeSpaced ==
  JStr(<< "0", "0", ":", "3", "0", " ", "-", " ", "0", "1", ":", "4", "5" >>)
\* "1:05:30-1:06:00"
RangeHours ==
  JStr(<< "1", ":", "0", "5", ":", "3", "0", "-", "1", ":", "0", "6", ":", "0", "0" >>)
\* "intro"
RangeWord == JStr(<< "i", "n", "t", "r", "o" >>)

Foo == JStr(<< "F", "o", "o" >>)
Bar == JStr(<< "b", "a", "r" >>)
Baz == JStr(<< "B", "a", "z" >>)

\* {"name": "Foo", "description": "bar"}
ToolPlain == JDict([k \in {"name", "description"} |->
                      IF k = "name" THEN Foo ELSE Bar])

\* A tool with every field, two parseable ranges and pricing "null".
ToolFull ==
  JDict([k \in {"name", "description", "timestamp_ranges", "pricing"}
               \cup ScalarFields \cup ListFields |->
           CASE k = "name" -> Baz
             [] k = "description" -> Bar
             [] k = "timestamp_ranges" -> JList(<< RangeGood, RangeSpaced >>)
             [] k = "pricing" -> JStr(<< "n", "u", "l", "l" >>)
             [] k \in ScalarFields -> Bar
             [] k = "limitations" -> JList(<< >>)
             [] k \in ListFields -> JList(<< Foo, Bar >>)])

\* A tool one of whose ranges does not start with MM:SS.
ToolBadRange(bad) ==
  JDict([k \in {"name", "description", "timestamp_ranges", "usage_context"} |->
           CASE k = "name" -> Baz
             [] k = "description" -> Bar
             [] k = "usage_context" -> Foo
             [] k = "timestamp_ranges" -> JList(<< bad, RangeGood >>)])

\* {"name": "Foo"}
ToolNoDescription == JDict([k \in {"name"} |-> Foo])

JsonText(doc) == [syntax |-> "json", doc |-> doc]

AiTools(tools) == JsonText(JDict([k \in {"ai_tools"} |-> JList(tools)]))

\* What the tools-analysis call may answer.
ToolsResponses ==
  { [syntax |-> "invalid", text |-> "Sorry, I found no tools."],
    JsonText(JNull),
    JsonText(JList(<< >>)),
    JsonText(JDict([k \in {"tools"} |-> JList(<< >>)])),
    AiTools(<< >>),
    AiTools(<< ToolPlain >>),
    AiTools(<< ToolFull, ToolPlain >>),
    AiTools(<< ToolBadRange(RangeHours), ToolPlain >>),
    AiTools(<< ToolPlain, ToolBadRange(RangeWord) >>),
    AiTools(<< ToolNoDescription >>) }

VideoId == "RXZPxl7uEQQ"

\* ---- process_transcript --------------------------------------------------------
\* sep.join(parts): the parts with the separator between them.
RECURSIVE Join(_, _)
Join(sep, parts) ==
  IF Len(parts) <= 1 THEN parts
  ELSE << Head(parts), sep >> \o Join(sep, Tail(parts))

\* A text built by concatenation, as the sequence of its parts.
Text(parts) == [parts |-> parts]

\* Mutant of merge_running_notes: the notes are joined last chunk first.
merge_reversed(notes_chunks) ==
  Text(Join("\n\n", [k \in 1..Len(notes_chunks) |->
                        notes_chunks[Len(notes_chunks) + 1 - k]]))

\* Lines 177-184.
merge_running_notes(notes_chunks) ==
  IF notes_chunks = << >> THEN Text(<< >>)
  ELSE Text(Join("\n\n", notes_chunks))

\* Transcripts process_transcript is run on: at most MaxPipelineSegs segments,
\* each text of 0 or MaxWords words.
PipelineTranscripts ==
  { t \in UNION { TranscriptsOfLen(n) : n \in 0..MaxPipelineSegs } :
      \A k \in 1..Len(t) : t[k].text_words \in {0, MaxWords} }

PipelineBudgets == {PromptReserve, PromptReserve + MaxAvail}

PipelineOverlaps == {MaxOverlap, DefaultOverlapTokens}

Init ==
  /\ pc = "start"
  /\ overlap_tokens \in PipelineOverlaps
  /\ base_model_max_tokens \in PipelineBudgets
  /\ transcript_data \in PipelineTranscripts
  /\ formatted_segments = << >>
  /\ transcript_chunks = None
  /\ idx = 0
  /\ running_notes_chunks = << >>
  /\ running_notes = None
  /\ ai_tools_json = None
  /\ calls = << >>
  /\ responses = << >>
  /\ insights = None
  /\ error = None
  /\ markdown = None

\* Lines 188-198: format the segments and chunk them.
BeginProcess ==
  /\ pc = "start"
  /\ formatted_segments' = FormatAll(transcript_data)
  /\ transcript_chunks' =
       chunk_transcript(FormatAll(transcript_data), base_model_max_tokens,
                        overlap_tokens)
  /\ idx' = 0
  /\ running_notes_chunks' = << >>
  /\ pc' = "notes_loop"
  /\ UNCHANGED << overlap_tokens, base_model_max_tokens, transcript_data,
                  running_notes, ai_tools_json, calls, responses, insights,
                  error, markdown >>

\* Lines 201-208: the note-taking request for chunk idx is sent.
CallNotes ==
  /\ pc = "notes_loop"
  /\ idx < Len(transcript_chunks.chunks)
  /\ calls' = Append(calls, [ stage |-> "notes", model |-> "base_model",
                              chunk_no |-> idx,
                              chunk_text |-> transcript_chunks.chunks[idx + 1] ])
  /\ pc' = "call_notes"
  /\ UNCHANGED << overlap_tokens, base_model_max_tokens, transcript_data,
                  formatted_segments, transcript_chunks, idx,
                  running_notes_chunks, running_notes, ai_tools_json,
                  responses, insights, error, markdown >>

\* Lines 74 and 209: the request succeeds; its content is appended.
NotesReturn ==
  /\ pc = "call_notes"
  /\ \E chunk_notes \in NoteTexts :
       /\ running_notes_chunks' = Append(running_notes_chunks, chunk_notes)
       /\ responses' = Append(responses, [ok |-> TRUE, note |-> chunk_notes])
  /\ idx' = idx + 1
  /\ pc' = "notes_loop"
  /\ UNCHANGED << overlap_tokens, base_model_max_tokens, transcript_data,
                  formatted_segments, transcript_chunks, running_notes,
                  ai_tools_json, calls, insights, error, markdown >>

\* Lines 212-220: the loop is over; merge the notes and send the tools request.
CallTools ==
  /\ pc = "notes_loop"
  /\ idx >= Len(transcript_chunks.chunks)
  /\ running_notes' = merge_running_notes(running_notes_chunks)
  /\ calls' = Append(calls, [ stage |-> "tools", model |-> "base_model",
                              notes |-> merge_running_notes(running_notes_chunks) ])
  /\ pc' = "call_tools"
  /\ UNCHANGED << overlap_tokens, base_model_max_tokens, transcript_data,
                  formatted_segments, transcript_chunks, idx,
                  running_notes_chunks, ai_tools_json, responses, insights,
                  error, markdown >>

\* Lines 74 and 217: the tools request succeeds; its content is kept as is.
ToolsReturn ==
  /\ pc = "call_tools"
  /\ \E text \in ToolsResponses :
       /\ ai_tools_json' = text
       /\ responses' = Append(responses, [ok |-> TRUE, tools |-> text])
  /\ pc' = "tools_done"
  /\ UNCHANGED << overlap_tokens, base_model_max_tokens, transcript_data,
                  formatted_segments, transcript_chunks, idx,
                  running_notes_chunks, running_notes, calls, insights, error,
                  markdown >>

\* Lines 224-228: the summary request is sent.
CallSummary ==
  /\ pc = "tools_done"
  /\ calls' = Append(calls, [ stage |-> "summary", model |-> "thinking_model",
                              notes |-> running_notes ])
  /\ pc' = "call_summary"
  /\ UNCHANGED << overlap_tokens, base_model_max_tokens, transcript_data,
                  formatted_segments, transcript_chunks, idx,
                  running_notes_chunks, running_notes, ai_tools_json,
                  responses, insights, error, markdown >>

\* Lines 74 and 225-234: the summary request succeeds; VideoInsights is returned.
SummaryReturn ==
  /\ pc = "call_summary"
  /\ \E final_summary \in SummaryTexts :
       /\ insights' = [ running_notes |-> running_notes,
                        ai_tools_json |-> ai_tools_json,
                        final_summary |-> final_summary ]
       /\ responses' = Append(responses, [ok |-> TRUE, summary |-> final_summary])
  /\ pc' = "returned"
  /\ UNCHANGED << overlap_tokens, base_model_max_tokens, transcript_data,
                  formatted_segments, transcript_chunks, idx,
                  running_notes_chunks, running_notes, ai_tools_json, calls,
                  error, markdown >>

InCall == pc \in {"call_notes", "call_tools", "call_summary"}

\* Mutant of CallFails: the failed request is sent again.
CallFailsRetried ==
  /\ InCall
  /\ responses' = Append(responses, [ok |-> FALSE, exc |-> "RequestException"])
  /\ calls' = Append(calls, calls[Len(calls)])
  /\ UNCHANGED << pc, overlap_tokens, base_model_max_tokens, transcript_data,
                  formatted_segments, transcript_chunks, idx,
                  running_notes_chunks, running_notes, ai_tools_json,
                  insights, error, markdown >>

\* Lines 69-80: the request fails (transport error or non-200 status, or a
\* body without choices); _call_llm re-raises, and neither process_transcript
\* nor analyze_youtube_video catches.
CallFails ==
  /\ InCall
  /\ \E exc \in {"RequestException", "KeyError"} :
       /\ responses' = Append(responses, [ok |-> FALSE, exc |-> exc])
       /\ error' = [exc |-> exc, stage |-> calls[Len(calls)].stage]
  /\ pc' = "raised"
  /\ UNCHANGED << overlap_tokens, base_model_max_tokens, transcript_data,
                  formatted_segments, transcript_chunks, idx,
                  running_notes_chunks, running_notes, ai_tools_json, calls,
                  insights, markdown >>

\* Lines 339-342: the report is returned, or the exception of
\* format_insights_markdown reaches the caller.
FormatOutcome(r) ==
  IF r.ok
  THEN /\ markdown' = r.v
       /\ pc' = "formatted"
       /\ error' = error
  ELSE /\ markdown' = markdown
       /\ pc' = "format_raised"
       /\ error' = [exc |-> r.exc, stage |-> "format"]

FormatInsightsMarkdown ==
  /\ pc = "returned"
  /\ FormatOutcome(format_insights_markdown(insights, VideoId))
  /\ UNCHANGED << overlap_tokens, base_model_max_tokens, transcript_data,
                  formatted_segments, transcript_chunks, idx,
                  running_notes_chunks, running_notes, ai_tools_json, calls,
                  responses, insights >>

Next ==
  \/ BeginProcess
  \/ CallNotes
  \/ NotesReturn
  \/ CallTools
  \/ ToolsReturn
  \/ CallSummary
  \/ SummaryReturn
  \/ CallFails
  \/ FormatInsightsMarkdown

Spec == Init /\ [][Next]_vars

\* ---- properties of _chunk_transcript ----------------------------------------
ChunkerReturned == transcript_chunks # None

Chunks == transcript_chunks.chunks

NumSegments == Len(formatted_segments)

Indices(chunk) == { chunk[k] : k \in 1..Len(chunk) }

ChunksHolding(i) == { k \in 1..Len(Chunks) : i \in Indices(Chunks[k]) }

ChunkCost(chunk) == SumTokens(formatted_segments, chunk)

Oversize(i) ==
  estimate_tokens(formatted_segments[i + 1])
    > available_tokens(base_model_max_tokens) * 10

\* C1: the union of the segment indices held by the returned chunks is exactly
\* the input index range 0..n-1: no segment is missing from all chunks and no
\* chunk holds an index that is not an input segment.
C1_Coverage ==
  ChunkerReturned =>
    UNION { Indices(Chunks[k]) : k \in 1..Len(Chunks) } = 0..(NumSegments - 1)

\* C1 witness: a run that split the input, seeded a chunk with an overlap and
\* flushed a final chunk.
C1_Witness ==
  /\ ChunkerReturned
  /\ NumSegments >= 4
  /\ Len(Chunks) >= 3
  /\ \E i \in 0..(NumSegments - 1) : Cardinality(ChunksHolding(i)) >= 2
  /\ C1_Coverage

\* C2 (as claimed): for every k >= 1 the first segment of chunk k, and the
\* segment that opened chunk k, have strictly greater indices than those of
\* chunk k-1.
C2_ForwardProgress ==
  ChunkerReturned =>
    \A k \in 2..Len(Chunks) :
      /\ Chunks[k] # << >>
      /\ Chunks[k - 1] # << >>
      /\ Head(Chunks[k]) > Head(Chunks[k - 1])
      /\ transcript_chunks.opened_at[k] > transcript_chunks.opened_at[k - 1]

\* C3 (as claimed): a segment whose own cost exceeds the available budget is
\* held by exactly one chunk, and that chunk holds nothing else.
C3_OversizeAlone ==
  ChunkerReturned =>
    \A i \in 0..(NumSegments - 1) :
      Oversize(i) =>
        /\ Cardinality(ChunksHolding(i)) = 1
        /\ \A k \in ChunksHolding(i) : Chunks[k] = << i >>

\* C4 (as claimed): every segment index is held by at most two chunks, and
\* when by two, they are neighbours in the chunk list.
C4_OverlapAdjacent ==
  ChunkerReturned =>
    \A i \in 0..(NumSegments - 1) :
      /\ Cardinality(ChunksHolding(i)) <= 2
      /\ \A k, l \in ChunksHolding(i) : k - l \in {-1, 0, 1}

\* C5 (as claimed, for the chunks that hold a segment): the estimated cost of
\* every chunk, overlap included, is at most max_model_tokens - 1000, unless the
\* chunk is a single segment whose own cost exceeds that amount.
C5_ChunkWithinBudget ==
  ChunkerReturned =>
    \A k \in 1..Len(Chunks) :
      \/ Chunks[k] = << >>
      \/ ChunkCost(Chunks[k]) <= available_tokens(base_model_max_tokens) * 10
      \/ /\ Len(Chunks[k]) = 1
         /\ Oversize(Chunks[k][1])

\* C10 (as claimed): no returned chunk is empty, the chunk list is empty exactly
\* when the input is, and no note-taking request is sent for an empty chunk.
C10_NoEmptyChunk ==
  ChunkerReturned =>
    /\ \A k \in 1..Len(Chunks) : Chunks[k] # << >>
    /\ (Chunks = << >>) <=> (NumSegments = 0)
    /\ \A k \in 1..Len(calls) :
         calls[k].stage = "notes" => calls[k].chunk_text # << >>

\* ---- properties of process_transcript ------------------------------------------
NumChunks == Len(Chunks)

\* C6: the requests are one note-taking request per chunk in chunk order, then
\* the tools analysis, then the summary; a request is sent only after the
\* previous one has ended; the k-th collected note is the answer to the request
\* for chunk k; and running_notes holds the notes in chunk order.
C6_CallSequence ==
  /\ Len(responses) <= Len(calls)
  /\ Len(calls) <= Len(responses) + 1
  /\ ChunkerReturned =>
       /\ Len(calls) <= NumChunks + 2
       /\ \A k \in 1..Len(calls) :
            /\ k <= NumChunks =>
                 /\ calls[k].stage = "notes"
                 /\ calls[k].chunk_no = k - 1
                 /\ calls[k].chunk_text = Chunks[k]
            /\ k = NumChunks + 1 =>
                 /\ calls[k].stage = "tools"
                 /\ calls[k].notes = running_notes
            /\ k = NumChunks + 2 =>
                 /\ calls[k].stage = "summary"
                 /\ calls[k].notes = running_notes
       /\ Len(running_notes_chunks) <= NumChunks
       /\ \A k \in 1..Len(running_notes_chunks) :
            /\ responses[k].ok
            /\ running_notes_chunks[k] = responses[k].note
       /\ running_notes # None =>
            /\ Len(running_notes_chunks) = NumChunks
            /\ Len(running_notes.parts)
                 = IF NumChunks = 0 THEN 0 ELSE 2 * NumChunks - 1
            /\ \A k \in 1..NumChunks :
                 running_notes.parts[2 * k - 1] = responses[k].note
       /\ pc = "returned" =>
            /\ Len(calls) = NumChunks + 2
            /\ insights.running_notes = running_notes

\* C6 witness: a failure-free run over three or more chunks whose notes differ.
C6_Witness ==
  /\ pc = "returned"
  /\ NumChunks >= 3
  /\ Len(calls) = NumChunks + 2
  /\ responses[1].note # responses[2].note
  /\ insights.running_notes.parts[1] = responses[1].note
  /\ insights.running_notes.parts[3] = responses[2].note

\* C7: a failed request is the last request: nothing is sent after it, it is
\* not sent again, no VideoInsights and no report exist, and its exception is
\* the one the caller gets.
C7_FailureIsFatal ==
  \A k \in 1..Len(responses) :
    ~responses[k].ok =>
      /\ k = Len(responses)
      /\ Len(calls) = k
      /\ pc = "raised"
      /\ insights = None
      /\ markdown = None
      /\ error # None
      /\ error.exc = responses[k].exc
      /\ error.stage = calls[k].stage

\* C7 witness: the request for a later chunk failed with notes already collected.
C7_Witness ==
  /\ pc = "raised"
  /\ error.stage = "notes"
  /\ Len(running_notes_chunks) >= 1
  /\ ~responses[Len(responses)].ok
  /\ insights = None

\* ---- properties of format_insights_markdown -------------------------------------
\* The answer the tools prompt asks for: an object whose "ai_tools" is a list of
\* objects, each with a name and a description.
ExpectedStructure(text) ==
  /\ text.syntax = "json"
  /\ text.doc.t = "dict"
  /\ "ai_tools" \in DOMAIN text.doc.d
  /\ text.doc.d["ai_tools"].t = "list"
  /\ \A k \in 1..Len(text.doc.d["ai_tools"].l) :
       LET tool == text.doc.d["ai_tools"].l[k]
       IN  /\ tool.t = "dict"
           /\ {"name", "description"} \subseteq DOMAIN tool.d

Formatting == pc \in {"formatted", "format_raised"}

\* C8 (as claimed): an answer of the tools analysis that is not the expected
\* structure is passed through unchanged by process_transcript, and
\* format_insights_markdown raises nothing and returns a report with the raw
\* text as a block and the notes and summary intact.
C8_UnexpectedAnswerDegrades ==
  (ai_tools_json # None /\ ~ExpectedStructure(ai_tools_json)) =>
    /\ pc # "format_raised"
    /\ insights # None => insights.ai_tools_json = ai_tools_json
    /\ pc = "formatted" =>
         /\ markdown.tools_section = [kind |-> "raw_block", text |-> ai_tools_json]
         /\ markdown.running_notes = insights.running_notes
         /\ markdown.final_summary = insights.final_summary

AnsweredTools == ai_tools_json.doc.d["ai_tools"].l

RangesOfTool(tool) ==
  IF "timestamp_ranges" \in DOMAIN tool.d THEN tool.d["timestamp_ranges"].l
  ELSE << >>

Parseable(time_range) == Link(time_range, VideoId).ok

RECURSIVE ParseableLinks(_)
ParseableLinks(ranges) ==
  IF ranges = << >> THEN << >>
  ELSE IF Parseable(Head(ranges))
       THEN << Link(Head(ranges), VideoId).v >> \o ParseableLinks(Tail(ranges))
       ELSE ParseableLinks(Tail(ranges))

\* C9 (as claimed): when an entity has a range whose start is not MM:SS,
\* format_insights_markdown raises nothing, emits every entity with its name
\* and description, and links exactly the parseable ranges.
C9_MalformedRangeKeepsEntity ==
  ( /\ Formatting
    /\ ExpectedStructure(ai_tools_json)
    /\ \E k \in 1..Len(AnsweredTools) :
         \E j \in 1..Len(RangesOfTool(AnsweredTools[k])) :
           ~Parseable(RangesOfTool(AnsweredTools[k])[j]) )
  =>
    /\ pc = "formatted"
    /\ Len(markdown.tools_section.entries) = Len(AnsweredTools)
    /\ \A k \in 1..Len(AnsweredTools) :
         /\ markdown.tools_section.entries[k].name = AnsweredTools[k].d["name"]
         /\ markdown.tools_section.entries[k].description
              = AnsweredTools[k].d["description"]
         /\ markdown.tools_section.entries[k].links
              = ParseableLinks(RangesOfTool(AnsweredTools[k]))

====
